---- MODULE Spec2Model ----
(***************************************************************************)
(* playwright-video: the recording timeline of the `export` command        *)
(* (src/src/cli.mts) and the pointer/scroll choreography of utils()         *)
(* (src/unnamed/part_001).                                                  *)
(*                                                                          *)
(* Times are integers in milliseconds.  A JavaScript number of seconds is   *)
(* kept exactly as a record [whole, milli] (whole seconds and thousandths). *)
(* Pointer coordinates are kept in quarter pixels (the centre of a box of odd  *)
(* width lies on a half pixel).                                             *)
(***************************************************************************)
EXTENDS Integers, Sequences, FiniteSets, TLC

VARIABLES
  \* ---- export action (cli.mts) ----
  pc,          \* position of the export action
  now,         \* the wall clock read by Date.now()
  startedAt,   \* cli.mts:212
  marks,       \* cli.mts:213, appended to by pause()/resume()
  videoPath,   \* cli.mts:220, FALSE when page.video() is undefined
  rawFile,     \* the raw recording: [exists, frames]
  segments,    \* cli.mts:238
  output,      \* the file at options.outputPath: [exists, frames]
  ffmpegRuns,  \* number of spawnSync("ffmpeg") calls
  closedAt,    \* <<t>> when cli.mts:235 appended the closing pause at t, else <<>>
  dirExists,   \* the temporary directory of cli.mts:146
  \* ---- utils(page) (part_001) ----
  currentMouseX, currentMouseY,  \* Pointer State, part_001:8-9
  ppc,         \* the await at which the running operation is suspended, or "idle"
  call,        \* the operation the script called last, with its arguments
  steps,       \* part_001:92
  index,       \* part_001:96, the number of waypoints issued so far
  sent,        \* the primitives the operation called last has issued, in order
  result,      \* how the operation called last ended: "ok" or the error thrown
  cursor,      \* window.__cursor's class on the page
  inflight,    \* primitives issued without await and not yet resolved
  scrollY,     \* window.scrollY
  indicator,   \* the scroll indicator on the page: <<>> or <<[dir, opacity]>>
  anim,        \* the scroll animation running in the page
  timeout,     \* part_001:44, the budget waitUntilSatisfied counts down
  evaluations, \* how often waitUntilSatisfied has called its callback
  selectExpr   \* cli.mts:78, the expression given to ffmpeg; <<>> before it is built

tlVars == <<pc, now, startedAt, marks, videoPath, rawFile, segments, output,
            ffmpegRuns, closedAt, dirExists>>

ptVars == <<currentMouseX, currentMouseY, ppc, call, steps, index, sent, result,
            cursor, inflight, scrollY, indicator, anim>>

wtVars == <<timeout, evaluations>>

ffVars == <<selectExpr>>

vars == <<tlVars, ptVars, wtVars, ffVars>>

\* ------------------------------------------------------------------ bounds
MaxCalls == 3        \* pause()/resume() calls one script makes
MaxTicks == 4        \* clock ticks of one session
MaxMarks == 4        \* length of the mark sequences given to marksToSegments alone
MaxCoord == 2        \* moveMouseTo targets lie in 0..MaxCoord pixels
MaxSpeed == 2        \* speeds are 1..MaxSpeed pixels per step

MaxTimeout == 12     \* waitUntilSatisfied budgets go up to 5 * MaxTimeout ms

\* The clock advances in steps of half a second; the recording holds one frame
\* per step.
TickMs == 1000 \div 2

\* -------------------------------------------------------------- seconds
\* `ms / 1000` (cli.mts:45-46): the exact decimal, whole seconds and thousandths.
DivBy1000(ms) == [whole |-> ms \div 1000, milli |-> ms % 1000]

SecLeq(a, b) == a.whole < b.whole \/ (a.whole = b.whole /\ a.milli <= b.milli)

SecZero == [whole |-> 0, milli |-> 0]

Last(s) == s[Len(s)]

\* ------------------------------------------------------------ marksToSegments
Mark(type, timestamp) == [type |-> type, timestamp |-> timestamp]

\* The loop of cli.mts:40-50; resumeTime is <<>> for null and <<t>> for t.
RECURSIVE scanMarks(_, _, _, _, _)
scanMarks(ms, started, i, resumeTime, segs) ==
  IF i > Len(ms) THEN segs
  ELSE LET mark == ms[i] IN
    IF mark.type = "resume"
      THEN scanMarks(ms, started, i + 1, <<mark.timestamp>>, segs)
    ELSE IF mark.type = "pause" /\ resumeTime # <<>>
      THEN scanMarks(ms, started, i + 1, <<>>,
             Append(segs, [start |-> DivBy1000(resumeTime[1] - started),
                           end   |-> DivBy1000(mark.timestamp - started)]))
    ELSE scanMarks(ms, started, i + 1, resumeTime, segs)

\* Mutant: a resume does not replace an unmatched earlier one.
RECURSIVE scanMarksFirstResume(_, _, _, _, _)
scanMarksFirstResume(ms, started, i, resumeTime, segs) ==
  IF i > Len(ms) THEN segs
  ELSE LET mark == ms[i] IN
    IF mark.type = "resume"
      THEN scanMarksFirstResume(ms, started, i + 1,
             IF resumeTime = <<>> THEN <<mark.timestamp>> ELSE resumeTime, segs)
    ELSE IF mark.type = "pause" /\ resumeTime # <<>>
      THEN scanMarksFirstResume(ms, started, i + 1, <<>>,
             Append(segs, [start |-> DivBy1000(resumeTime[1] - started),
                           end   |-> DivBy1000(mark.timestamp - started)]))
    ELSE scanMarksFirstResume(ms, started, i + 1, resumeTime, segs)

marksToSegmentsFirstResume(ms, started) ==
  scanMarksFirstResume(ms, started, 1, <<>>, <<>>)

\* Mutant: the tracked resume is not cleared when a segment is emitted.
RECURSIVE scanMarksNoClear(_, _, _, _, _)
scanMarksNoClear(ms, started, i, resumeTime, segs) ==
  IF i > Len(ms) THEN segs
  ELSE LET mark == ms[i] IN
    IF mark.type = "resume"
      THEN scanMarksNoClear(ms, started, i + 1, <<mark.timestamp>>, segs)
    ELSE IF mark.type = "pause" /\ resumeTime # <<>>
      THEN scanMarksNoClear(ms, started, i + 1, resumeTime,
             Append(segs, [start |-> DivBy1000(resumeTime[1] - started),
                           end   |-> DivBy1000(mark.timestamp - started)]))
    ELSE scanMarksNoClear(ms, started, i + 1, resumeTime, segs)

marksToSegmentsNoClear(ms, started) == scanMarksNoClear(ms, started, 1, <<>>, <<>>)

marksToSegments(ms, started) == scanMarks(ms, started, 1, <<>>, <<>>)

\* ------------------------------------------------------------ buildSelectFilter
\* A number in the expression is text: a sequence of characters.
DigitChars == <<"0", "1", "2", "3", "4", "5", "6", "7", "8", "9">>

RECURSIVE Digits(_)
Digits(n) ==
  IF n < 10 THEN <<DigitChars[n + 1]>>
  ELSE Append(Digits(n \div 10), DigitChars[(n % 10) + 1])

\* The decimals of m thousandths, 0 < m < 1000, without trailing zeros.
Decimals(m) ==
  LET d1 == DigitChars[(m \div 100) + 1]
      d2 == DigitChars[((m \div 10) % 10) + 1]
      d3 == DigitChars[(m % 10) + 1]
  IN IF m % 10 # 0 THEN <<d1, d2, d3>>
     ELSE IF m % 100 # 0 THEN <<d1, d2>>
     ELSE <<d1>>

\* `${s.start}` (cli.mts:63): the shortest decimal that reads back as the
\* number; for a whole number of thousandths, that number written out.
NumberToString(sec) ==
  LET ms == sec.whole * 1000 + sec.milli
      mag == IF ms < 0 THEN 0 - ms ELSE ms
  IN (IF ms < 0 THEN <<"-">> ELSE <<>>)
     \o Digits(mag \div 1000)
     \o (IF mag % 1000 = 0 THEN <<>> ELSE <<".">> \o Decimals(mag % 1000))

DigitValue(c) == CHOOSE d \in 0..9 : DigitChars[d + 1] = c

RECURSIVE DigitsValue(_)
DigitsValue(text) ==
  IF Len(text) = 0 THEN 0
  ELSE 10 * DigitsValue(SubSeq(text, 1, Len(text) - 1)) + DigitValue(text[Len(text)])

\* ffmpeg reading a number of the expression (up to three decimals).
ParseNumber(text) ==
  LET negative == Len(text) > 0 /\ text[1] = "-"
      body == IF negative THEN SubSeq(text, 2, Len(text)) ELSE text
      dots == {i \in 1..Len(body) : body[i] = "."}
      dot == IF dots = {} THEN Len(body) + 1 ELSE CHOOSE i \in dots : TRUE
      decimals == SubSeq(body, dot + 1, Len(body))
      mag == 1000 * DigitsValue(SubSeq(body, 1, dot - 1))
             + DigitsValue(decimals) * 10 ^ (3 - Len(decimals))
  IN DivBy1000(IF negative THEN 0 - mag ELSE mag)

\* Mutant: only the first segment is selected.
buildSelectFilterFirstOnly(segs) ==
  IF Len(segs) = 0
    THEN <<[lo |-> <<"0">>, hi |-> <<"0">>]>>
    ELSE <<[lo |-> NumberToString(segs[1].start), hi |-> NumberToString(segs[1].end)]>>

\* The expression is the "+" of its terms; a term between(t,lo,hi) is [lo, hi],
\* lo and hi as they are written in the expression.
buildSelectFilter(segs) ==
  IF Len(segs) = 0
    THEN <<[lo |-> <<"0">>, hi |-> <<"0">>]>>
    ELSE [i \in 1..Len(segs) |->
            [lo |-> NumberToString(segs[i].start), hi |-> NumberToString(segs[i].end)]]

\* ffmpeg's between(t,lo,hi): 1 when lo <= t <= hi, else 0.
Between(t, lo, hi) == IF SecLeq(lo, t) /\ SecLeq(t, hi) THEN 1 ELSE 0

RECURSIVE SelectValue(_, _, _)
SelectValue(expr, t, i) ==
  IF i > Len(expr) THEN 0
  ELSE Between(t, ParseNumber(expr[i].lo), ParseNumber(expr[i].hi))
       + SelectValue(expr, t, i + 1)

\* ffmpeg's select filter keeps the frames for which the expression is not 0.
\* A frame is named by its offset in ms from the start of the recording.
SelectFrames(frames, expr) ==
  {f \in frames : SelectValue(expr, DivBy1000(f), 1) # 0}

NoFile == [exists |-> FALSE, frames |-> {}]
File(frames) == [exists |-> TRUE, frames |-> frames]

\* processVideoSegments (cli.mts:69-105) when ffmpeg succeeds: the file it
\* leaves at outputPath, given the file `out` that was there.
processVideoSegments(input, out, segs) ==
  IF Len(segs) = 0 THEN out
  ELSE File(SelectFrames(input.frames, buildSelectFilter(segs)))

\* Whether processVideoSegments spawns ffmpeg (cli.mts:74-76, 93).
SpawnsFfmpeg(segs) == Len(segs) # 0

\* Mutant: the closing pause is stamped with the time of the first mark.
closeMarksAtStart(ms, t) ==
  IF Len(ms) > 0 /\ Last(ms).type = "resume"
    THEN Append(ms, Mark("pause", ms[1].timestamp))
    ELSE ms

\* Mutant: no closing pause is appended.
closeMarksNever(ms, t) == ms

\* cli.mts:234-236: the closing pause.
closeMarks(ms, t) ==
  IF Len(ms) > 0 /\ Last(ms).type = "resume" THEN Append(ms, Mark("pause", t)) ELSE ms

\* cli.mts:240: whether the range selection path is taken.
UsesRangeSelection(ms) == Len(ms) > 2

\* The frames the recorder wrote in `elapsed` ms: one per clock step.
FrameTimes(elapsed) == {f \in 0..elapsed : f % TickMs = 0}

\* ------------------------------------------------------------- utils(page)
\* Lengths are in quarter pixels.
Px(n) == 4 * n

NullLocator == [by |-> "null", q |-> ""]

\* An option the script leaves out (undefined).
NoDelay == 0 - 1

NoCall ==
  [name |-> "none", selector |-> "", text |-> "", locator |-> NullLocator,
   resolved |-> NullLocator, x |-> 0, y |-> 0, speed |-> 0, fromX |-> 0, fromY |-> 0,
   timeout |-> 0, delay |-> NoDelay]

NoAnim == [phase |-> "none", start |-> 0, distance |-> 0, progress |-> 0]

\* part_001:8-9 and a freshly loaded page.
PointerInit ==
  /\ currentMouseX = 0
  /\ currentMouseY = 0
  /\ ppc = "idle"
  /\ call = NoCall
  /\ steps = 0
  /\ index = 0
  /\ sent = <<>>
  /\ result = "none"
  /\ cursor = "default"
  /\ inflight = {}
  /\ scrollY = 0
  /\ indicator = <<>>
  /\ anim = NoAnim
  /\ timeout = 0
  /\ evaluations = 0
  /\ selectExpr = <<>>

\* ----------------------------------------------------------------- the page
\* The page the operations act on: element "a" lies in the first viewport,
\* element "b" below it.  Boxes are in pixels, in document coordinates.
DocBox(e) ==
  IF e = "a" THEN [x |-> 1, y |-> 1, width |-> 2, height |-> 1]
             ELSE [x |-> 0, y |-> 6, width |-> 3, height |-> 2]

InnerHeight == Px(4)       \* window.innerHeight

MaxScrollY == Px(6)        \* document height less the viewport height

\* The element a locator resolves to; "" when it matches nothing.
ElementOf(locator) ==
  IF locator.by = "selector" /\ locator.q = "#a" THEN "a"
  ELSE IF locator.by = "text" /\ locator.q = "B" THEN "b"
  ELSE ""

NoBox == [found |-> FALSE, x |-> 0, y |-> 0, width |-> 0, height |-> 0]

\* locator.boundingBox(): relative to the viewport; null when nothing matches.
boundingBox(locator, scroll) ==
  IF ElementOf(locator) = "" THEN NoBox
  ELSE LET b == DocBox(ElementOf(locator)) IN
    [found |-> TRUE, x |-> Px(b.x), y |-> Px(b.y) - scroll,
     width |-> Px(b.width), height |-> Px(b.height)]

\* window.scrollTo keeps the offset within the scrollable range.
ClampScroll(v) == IF v < 0 THEN 0 ELSE IF v > MaxScrollY THEN MaxScrollY ELSE v

Selectors == {"", "#a", "#gone"}

Texts == {"", "B"}

\* A handle made before the call, page.getByText("Gone"), matches nothing.
Locators == {NullLocator, [by |-> "text", q |-> "Gone"]}

TargetOptions == [selector : Selectors, text : Texts, locator : Locators]

Coords == {Px(i) : i \in 0..MaxCoord}

Speeds == 1..MaxSpeed

\* part_001:303: the wait before the click when no delay is given, in ms.
DefaultDelay == 500

\* part_001:288: the wait after scrolling, in ms.
SettleDelay == 100

\* The delays the script gives clickLink: none, zero and a positive one.
Delays == {NoDelay, 0, 300}

\* --------------------------------------------------------------- locators
\* Mutant: selector and text together are refused.
optionsToLocatorExclusive(selector, text) ==
  IF (selector = "" /\ text = "") \/ (selector # "" /\ text # "")
    THEN [error |-> "InvalidArgument", locator |-> NullLocator]
  ELSE IF text # ""
    THEN [error |-> "", locator |-> [by |-> "text", q |-> text]]
    ELSE [error |-> "", locator |-> [by |-> "selector", q |-> selector]]

\* part_001:16-23.  The error "Must provide either selector or text" is the
\* InvalidArgument kind.
optionsToLocator(selector, text) ==
  IF selector = "" /\ text = ""
    THEN [error |-> "InvalidArgument", locator |-> NullLocator]
  ELSE IF text # ""
    THEN [error |-> "", locator |-> [by |-> "text", q |-> text]]
    ELSE [error |-> "", locator |-> [by |-> "selector", q |-> selector]]

\* part_001:126, 221: locator || optionsToLocator({ selector, text })
LocatorOr(locator, selector, text) ==
  IF locator # NullLocator
    THEN [error |-> "", locator |-> locator]
    ELSE optionsToLocator(selector, text)

\* --------------------------------------------------------------- moveMouseTo
Prim(kind, x, y, arg) == [kind |-> kind, x |-> x, y |-> y, arg |-> arg]

CursorPrim(type) == Prim("cursor", 0, 0, type)

\* Math.ceil(distance / speed) for speed > 0 (part_001:86, 92): the least n with
\* n * speed >= sqrt(dx^2 + dy^2); dx, dy in quarter pixels, speed in pixels.
Reaches(n, dx, dy, speed) == (Px(n) * speed) * (Px(n) * speed) >= dx * dx + dy * dy

CeilSteps(dx, dy, speed) ==
  CHOOSE n \in 0..(dx * dx + dy * dy) :
    Reaches(n, dx, dy, speed) /\ (n > 0 => ~Reaches(n - 1, dx, dy, speed))

\* Mutant: every waypoint is taken one increment too far.
RoundedWaypointAhead(from, d, n, i) ==
  Px((from * n + (i + 1) * d + 2 * n) \div (4 * n))

\* Math.round(from + i * d / n) (part_001:97-99), the sum taken exactly: the
\* nearest pixel, a half rounding up.
RoundedWaypoint(from, d, n, i) ==
  Px((from * n + i * d + 2 * n) \div (4 * n))

Waypoint(n, i) ==
  Prim("move",
       RoundedWaypoint(call.fromX, call.x - call.fromX, n, i),
       RoundedWaypoint(call.fromY, call.y - call.fromY, n, i), "")

\* Mutant: the loop runs once too often.
LoopContinuesOnceMore(i, n) == i <= n

\* part_001:96: whether the loop runs once more after `i` waypoints.
LoopContinues(i, n) == i < n

\* part_001:303: delay || 500
DelayOrDefault(delay) == IF delay = NoDelay \/ delay = 0 THEN DefaultDelay ELSE delay

\* How the operation that called moveMouseTo goes on when it returns, `s` being
\* the primitives issued so far: clickLink sets the hand cursor and sleeps
\* (part_001:302-303), the others return.
AfterMove(s) ==
  IF call.name = "clickLink"
    THEN /\ ppc' = "click.delay"
         /\ sent' = s \o <<CursorPrim("hand"), Prim("sleep", DelayOrDefault(call.delay), 0, "")>>
         /\ cursor' = "hand"
         /\ inflight' = inflight \cup {"setCursor"}
         /\ result' = result
    ELSE /\ ppc' = "returned"
         /\ sent' = s
         /\ result' = "ok"
         /\ UNCHANGED <<cursor, inflight>>

\* part_001:79-82: the cursor is reset and the pointer re-sent to where it is.
EnterMove(c, s, x, y, speed) ==
  /\ call' = [c EXCEPT !.x = x, !.y = y, !.speed = speed,
                       !.fromX = currentMouseX, !.fromY = currentMouseY]
  /\ cursor' = "default"
  /\ inflight' = inflight \cup {"setCursor"}
  /\ sent' = s \o <<CursorPrim("default"), Prim("move", currentMouseX, currentMouseY, "")>>
  /\ ppc' = "move.sync"

\* The record of a call: its arguments and the Pointer State it starts from.
NewCall(name, opts) ==
  [NoCall EXCEPT !.name = name, !.selector = opts.selector, !.text = opts.text,
                 !.locator = opts.locator,
                 !.fromX = currentMouseX, !.fromY = currentMouseY]

NoOptions == [selector |-> "", text |-> "", locator |-> NullLocator]

\* The script calls moveMouseTo(x, y, { speed }).
CallMoveMouseTo ==
  /\ ppc = "idle"
  /\ \E x \in Coords, y \in Coords, speed \in Speeds :
       EnterMove(NewCall("moveMouseTo", NoOptions), <<>>, x, y, speed)
  /\ result' = "none"
  /\ UNCHANGED <<currentMouseX, currentMouseY, steps, index, scrollY, indicator, anim>>
  /\ UNCHANGED <<tlVars, wtVars, ffVars>>

\* part_001:82-99: the first move has resolved.
MoveSynced ==
  /\ ppc = "move.sync"
  /\ LET dx == call.x - currentMouseX
         dy == call.y - currentMouseY
     IN IF dx = 0 /\ dy = 0
          THEN /\ AfterMove(sent)
               /\ UNCHANGED <<steps, index>>
          ELSE /\ steps' = CeilSteps(dx, dy, call.speed)
               /\ index' = 1
               /\ sent' = Append(sent, Waypoint(steps', 1))
               /\ ppc' = "move.step"
               /\ UNCHANGED <<result, cursor, inflight>>
  /\ UNCHANGED <<currentMouseX, currentMouseY, call, scrollY, indicator, anim>>
  /\ UNCHANGED <<tlVars, wtVars, ffVars>>

\* part_001:96-103: a waypoint move and its sleep(1) have resolved.
MoveStepped ==
  /\ ppc = "move.step"
  /\ IF LoopContinues(index, steps)
       THEN /\ index' = index + 1
            /\ sent' = Append(sent, Waypoint(steps, index + 1))
            /\ ppc' = "move.step"
       ELSE /\ index' = index
            /\ sent' = Append(sent, Prim("move", call.x, call.y, ""))
            /\ ppc' = "move.final"
  /\ UNCHANGED <<currentMouseX, currentMouseY, call, steps, result, cursor, inflight,
                 scrollY, indicator, anim>>
  /\ UNCHANGED <<tlVars, wtVars, ffVars>>

\* part_001:103-105: the final move has resolved.
MoveFinished ==
  /\ ppc = "move.final"
  /\ currentMouseX' = call.x
  /\ currentMouseY' = call.y
  /\ AfterMove(sent)
  /\ UNCHANGED <<call, steps, index, scrollY, indicator, anim>>
  /\ UNCHANGED <<tlVars, wtVars, ffVars>>

\* An operation ends by throwing `error` before or at an await.
Throw(error) ==
  /\ ppc' = "returned"
  /\ result' = error

\* The centre of a box (part_001:229-230, 297-298).
CenterX(box) == box.x + box.width \div 2

CenterY(box) == box.y + box.height \div 2

\* ---------------------------------------------------------- moveMouseToElement
\* part_001:213-223: the script calls moveMouseToElement(options).
CallMoveMouseToElement ==
  /\ ppc = "idle"
  /\ \E opts \in TargetOptions, speed \in Speeds :
       LET element == LocatorOr(opts.locator, opts.selector, opts.text) IN
         /\ call' = [NewCall("moveMouseToElement", opts) EXCEPT
                       !.speed = speed, !.resolved = element.locator]
         /\ IF element.error # ""
              THEN Throw(element.error)
              ELSE ppc' = "mte.box" /\ result' = "none"
  /\ cursor' = "default"
  /\ inflight' = inflight \cup {"setCursor"}
  /\ sent' = <<CursorPrim("default")>>
  /\ UNCHANGED <<currentMouseX, currentMouseY, steps, index, scrollY, indicator, anim>>
  /\ UNCHANGED <<tlVars, wtVars, ffVars>>

\* part_001:223-232: boundingBox() has resolved.
MoveToElementBoxed ==
  /\ ppc = "mte.box"
  /\ LET box == boundingBox(call.resolved, scrollY) IN
       IF ~box.found
         THEN /\ Throw("NotFound")
              /\ UNCHANGED <<call, cursor, inflight, sent>>
         ELSE /\ EnterMove(call, sent, CenterX(box), CenterY(box), call.speed)
              /\ UNCHANGED result
  /\ UNCHANGED <<currentMouseX, currentMouseY, steps, index, scrollY, indicator, anim>>
  /\ UNCHANGED <<tlVars, wtVars, ffVars>>

\* ------------------------------------------------------------- scrollToElement
\* part_001:120-128: the script calls scrollToElement(options).
CallScrollToElement ==
  /\ ppc = "idle"
  /\ \E opts \in TargetOptions :
       LET element == LocatorOr(opts.locator, opts.selector, opts.text) IN
         /\ call' = [NewCall("scrollToElement", opts) EXCEPT !.resolved = element.locator]
         /\ IF element.error # ""
              THEN Throw(element.error)
              ELSE ppc' = "scroll.box" /\ result' = "none"
  /\ sent' = <<>>
  /\ UNCHANGED <<currentMouseX, currentMouseY, steps, index, cursor, inflight, scrollY,
                 indicator, anim>>
  /\ UNCHANGED <<tlVars, wtVars, ffVars>>

\* part_001:128-167: boundingBox() has resolved; the script in the page computes
\* the distance, appends the indicator and asks for the first frames.
ScrollBoxed ==
  /\ ppc = "scroll.box"
  /\ LET box == boundingBox(call.resolved, scrollY) IN
       IF ~box.found
         THEN /\ Throw("NotFound")
              /\ UNCHANGED <<sent, indicator, anim>>
         ELSE LET elementCenterAbsolute == box.y + box.height \div 2
                  viewportCenterAbsolute == scrollY + InnerHeight \div 2
                  scrollDistance == elementCenterAbsolute - viewportCenterAbsolute
              IN /\ anim' = [phase |-> "fading-in", start |-> scrollY,
                             distance |-> scrollDistance, progress |-> 0]
                 /\ indicator' = <<[dir |-> IF scrollDistance < 0 THEN "up" ELSE "down",
                                    opacity |-> 0]>>
                 /\ sent' = Append(sent, Prim("evaluate", 0, 0, "scroll"))
                 /\ ppc' = "scroll.run"
                 /\ UNCHANGED result
  /\ UNCHANGED <<currentMouseX, currentMouseY, call, steps, index, cursor, inflight, scrollY>>
  /\ UNCHANGED <<tlVars, wtVars, ffVars>>

\* The ease in-out of part_001:175-178 at progress k/2, as a number of halves.
EasedHalves(k) == IF 2 * k < 2 THEN k * k ELSE 2 - (2 - k) * (2 - k)

\* part_001:162-185: an animation frame at progress k/2 of the duration (k = 2:
\* the duration has elapsed).  The first frame also fades the indicator in.
ScrollFrame ==
  /\ ppc = "scroll.run"
  /\ anim.phase \in {"fading-in", "animating"}
  /\ \E k \in 1..2 :
       /\ k > anim.progress
       /\ LET currentScroll == anim.start + (anim.distance * EasedHalves(k)) \div 2 IN
            /\ scrollY' = ClampScroll(currentScroll)
            /\ sent' = Append(sent, Prim("scroll", 0, currentScroll, ""))
       /\ anim' = [anim EXCEPT !.progress = k,
                               !.phase = IF k < 2 THEN "animating" ELSE "fading-out"]
       /\ indicator' = <<[indicator[1] EXCEPT !.opacity = IF k < 2 THEN 1 ELSE 0]>>
  /\ UNCHANGED <<currentMouseX, currentMouseY, ppc, call, steps, index, result, cursor,
                 inflight>>
  /\ UNCHANGED <<tlVars, wtVars, ffVars>>

\* Mutant: the indicator stays on the page.
keepIndicator == indicator

\* part_001:189: indicator.remove()
removeIndicator == <<>>

\* part_001:188-191, 287-291: 500 ms after the last frame the indicator is
\* removed and page.evaluate resolves; scrollToElement returns, and clickLink
\* sleeps 100 ms and asks for the bounding box again.
ScrollSettled ==
  /\ ppc = "scroll.run"
  /\ anim.phase = "fading-out"
  /\ indicator' = removeIndicator
  /\ anim' = [anim EXCEPT !.phase = "done"]
  /\ IF call.name = "clickLink"
       THEN /\ ppc' = "click.box2"
            /\ result' = result
            /\ sent' = Append(sent, Prim("sleep", SettleDelay, 0, ""))
       ELSE /\ ppc' = "returned"
            /\ result' = "ok"
            /\ sent' = sent
  /\ UNCHANGED <<currentMouseX, currentMouseY, call, steps, index, cursor, inflight,
                 scrollY>>
  /\ UNCHANGED <<tlVars, wtVars, ffVars>>

\* ------------------------------------------------------------------- clickLink
\* part_001:256-265: the script calls clickLink(options); only selector and
\* text reach optionsToLocator.
CallClickLink ==
  /\ ppc = "idle"
  /\ \E opts \in TargetOptions, mouseSpeed \in Speeds, delay \in Delays :
       LET locator == optionsToLocator(opts.selector, opts.text) IN
         /\ call' = [NewCall("clickLink", opts) EXCEPT
                       !.speed = mouseSpeed, !.resolved = locator.locator,
                       !.delay = delay]
         /\ IF locator.error # ""
              THEN Throw(locator.error)
              ELSE ppc' = "click.box1" /\ result' = "none"
  /\ sent' = <<>>
  /\ UNCHANGED <<currentMouseX, currentMouseY, steps, index, cursor, inflight, scrollY,
                 indicator, anim>>
  /\ UNCHANGED <<tlVars, wtVars, ffVars>>

\* part_001:265-275: the first boundingBox() has resolved.
ClickLinkBoxed ==
  /\ ppc = "click.box1"
  /\ IF ~boundingBox(call.resolved, scrollY).found
       THEN Throw("NotFound")
       ELSE ppc' = "click.viewport" /\ result' = result
  /\ UNCHANGED <<currentMouseX, currentMouseY, call, steps, index, sent, cursor, inflight,
                 scrollY, indicator, anim>>
  /\ UNCHANGED <<tlVars, wtVars, ffVars>>

\* part_001:283-284, with the box of part_001:265 (the page has not changed since).
isOffScreen(box, viewportHeight, scroll) ==
  LET viewportTop == scroll
      viewportBottom == scroll + viewportHeight
      elementTop == box.y
      elementBottom == box.y + box.height
  IN elementBottom < viewportTop \/ elementTop > viewportBottom

\* part_001:272-291: the viewport is known; scroll if the element is off screen,
\* then ask for the bounding box again.
ClickLinkViewport ==
  /\ ppc = "click.viewport"
  /\ IF isOffScreen(boundingBox(call.resolved, scrollY), InnerHeight, scrollY)
       THEN ppc' = "scroll.box"
       ELSE ppc' = "click.box2"
  /\ UNCHANGED <<currentMouseX, currentMouseY, call, steps, index, sent, result, cursor,
                 inflight, scrollY, indicator, anim>>
  /\ UNCHANGED <<tlVars, wtVars, ffVars>>

\* part_001:291-301: the second boundingBox() has resolved.
ClickLinkReboxed ==
  /\ ppc = "click.box2"
  /\ LET box == boundingBox(call.resolved, scrollY) IN
       IF ~box.found
         THEN /\ Throw("NotFound")
              /\ UNCHANGED <<call, cursor, inflight, sent>>
         ELSE /\ EnterMove(call, Append(sent, CursorPrim("default")),
                           CenterX(box), CenterY(box), call.speed)
              /\ UNCHANGED result
  /\ UNCHANGED <<currentMouseX, currentMouseY, steps, index, scrollY, indicator, anim>>
  /\ UNCHANGED <<tlVars, wtVars, ffVars>>

\* Mutant: the click goes to the origin of the page.
clickAtOrigin == Prim("click", 0, 0, "")

\* part_001:239-241: click() clicks at the current Pointer State.
click == Prim("click", currentMouseX, currentMouseY, "")

\* part_001:303-304: the delay is over; click() is called without await.
ClickLinkClicks ==
  /\ ppc = "click.delay"
  /\ sent' = Append(sent, click)
  /\ inflight' = inflight \cup {"click"}
  /\ ppc' = "returned"
  /\ result' = "ok"
  /\ UNCHANGED <<currentMouseX, currentMouseY, call, steps, index, cursor, scrollY,
                 indicator, anim>>
  /\ UNCHANGED <<tlVars, wtVars, ffVars>>

\* ---------------------------------------------------------------------- fillIn
\* part_001:316-318: the script calls fillIn({ selector, text }).
CallFillIn ==
  /\ ppc = "idle"
  /\ \E selector \in Selectors \ {""} :
       call' = [NewCall("fillIn", [NoOptions EXCEPT !.selector = selector]) EXCEPT
                  !.resolved = [by |-> "selector", q |-> selector]]
  /\ sent' = <<>>
  /\ ppc' = "fill.type"
  /\ result' = "none"
  /\ UNCHANGED <<currentMouseX, currentMouseY, steps, index, cursor, inflight, scrollY,
                 indicator, anim>>
  /\ UNCHANGED <<tlVars, wtVars, ffVars>>

\* part_001:317: pressSequentially() has resolved, or was rejected by the page
\* because the locator matches nothing.
FillInTyped ==
  /\ ppc = "fill.type"
  /\ IF ElementOf(call.resolved) = ""
       THEN Throw("NotFound") /\ sent' = sent
       ELSE /\ ppc' = "returned"
            /\ result' = "ok"
            /\ sent' = Append(sent, Prim("type", 0, 0, ElementOf(call.resolved)))
  /\ UNCHANGED <<currentMouseX, currentMouseY, call, steps, index, cursor, inflight,
                 scrollY, indicator, anim>>
  /\ UNCHANGED <<tlVars, wtVars, ffVars>>

\* ------------------------------------------------------------------- setCursor
\* part_001:64-68: the script calls setCursor(type).
CallSetCursor ==
  /\ ppc = "idle"
  /\ \E type \in {"default", "hand"} :
       /\ call' = [NoCall EXCEPT !.name = "setCursor"]
       /\ cursor' = type
       /\ sent' = <<CursorPrim(type)>>
  /\ inflight' = inflight \cup {"setCursor"}
  /\ result' = "ok"
  /\ ppc' = "returned"
  /\ UNCHANGED <<currentMouseX, currentMouseY, steps, index, scrollY, indicator, anim>>
  /\ UNCHANGED <<tlVars, wtVars, ffVars>>

\* ----------------------------------------------------------------------- visit
\* part_001:327-329: the script calls visit(url, options).
CallVisit ==
  /\ ppc = "idle"
  /\ call' = NewCall("visit", NoOptions)
  /\ sent' = <<Prim("goto", 0, 0, "url")>>
  /\ ppc' = "visit.goto"
  /\ result' = "none"
  /\ UNCHANGED <<currentMouseX, currentMouseY, steps, index, cursor, inflight, scrollY,
                 indicator, anim>>
  /\ UNCHANGED <<tlVars, wtVars, ffVars>>

\* page.goto() has resolved: a fresh document, scrolled to the top, on which
\* cursorSetup (cli.mts:217, part_000:32) has made the default cursor.
VisitLoaded ==
  /\ ppc = "visit.goto"
  /\ scrollY' = 0
  /\ indicator' = <<>>
  /\ cursor' = "default"
  /\ ppc' = "returned"
  /\ result' = "ok"
  /\ UNCHANGED <<currentMouseX, currentMouseY, call, steps, index, sent, inflight, anim>>
  /\ UNCHANGED <<tlVars, wtVars, ffVars>>

\* ---------------------------------------------------------------------- exists
\* part_001:337-339: the script calls exists(selector).
CallExists ==
  /\ ppc = "idle"
  /\ \E selector \in Selectors \ {""} :
       call' = [NewCall("exists", [NoOptions EXCEPT !.selector = selector]) EXCEPT
                  !.resolved = [by |-> "selector", q |-> selector]]
  /\ sent' = <<Prim("count", 0, 0, "")>>
  /\ ppc' = "exists.count"
  /\ result' = "none"
  /\ UNCHANGED <<currentMouseX, currentMouseY, steps, index, cursor, inflight, scrollY,
                 indicator, anim>>
  /\ UNCHANGED <<tlVars, wtVars, ffVars>>

\* count() has resolved; exists returns whether it is positive.
ExistsCounted ==
  /\ ppc = "exists.count"
  /\ ppc' = "returned"
  /\ result' = IF ElementOf(call.resolved) # "" THEN "true" ELSE "false"
  /\ UNCHANGED <<currentMouseX, currentMouseY, call, steps, index, sent, cursor, inflight,
                 scrollY, indicator, anim>>
  /\ UNCHANGED <<tlVars, wtVars, ffVars>>

\* ---------------------------------------------------------- waitUntilSatisfied
\* The budgets the script passes, in ms: negative, zero, and positive ones that
\* are and are not multiples of the 10 ms poll.
Timeouts == {5 * t : t \in (0 - 2)..MaxTimeout}

\* part_001:51-52: sleep(10); timeout -= 10
PollMs == 10

\* Mutant: the loop also runs with nothing left of the budget.
LoopRunsAtZero(t) == t >= 0

\* part_001:45: while (timeout > 0)
LoopRuns(t) == t > 0

\* part_001:44-46, 56: the script calls waitUntilSatisfied(callback, timeout);
\* the callback is called at once when the budget is positive.
CallWaitUntilSatisfied ==
  /\ ppc = "idle"
  /\ \E t \in Timeouts :
       /\ call' = [NewCall("waitUntilSatisfied", NoOptions) EXCEPT !.timeout = t]
       /\ timeout' = t
       /\ IF LoopRuns(t)
            THEN ppc' = "wait.callback" /\ result' = "none" /\ evaluations' = 1
            ELSE Throw("Timeout") /\ evaluations' = 0
  /\ sent' = <<>>
  /\ UNCHANGED <<currentMouseX, currentMouseY, steps, index, cursor, inflight, scrollY,
                 indicator, anim>>
  /\ UNCHANGED <<tlVars, ffVars>>

\* part_001:46-51: the callback has resolved, truthy or falsy.
CallbackResolved ==
  /\ ppc = "wait.callback"
  /\ \E truthy \in BOOLEAN :
       /\ sent' = Append(sent, Prim("callback", 0, 0, IF truthy THEN "truthy" ELSE "falsy"))
       /\ IF truthy
            THEN ppc' = "returned" /\ result' = "ok"
            ELSE ppc' = "wait.sleep" /\ result' = result
  /\ UNCHANGED <<currentMouseX, currentMouseY, call, steps, index, cursor, inflight,
                 scrollY, indicator, anim>>
  /\ UNCHANGED <<tlVars, wtVars, ffVars>>

\* part_001:51-52, 45, 56: sleep(10) has resolved; the budget is counted down
\* and the loop test taken again.
PollSlept ==
  /\ ppc = "wait.sleep"
  /\ timeout' = timeout - PollMs
  /\ IF LoopRuns(timeout')
       THEN ppc' = "wait.callback" /\ result' = result /\ evaluations' = evaluations + 1
       ELSE Throw("Timeout") /\ evaluations' = evaluations
  /\ UNCHANGED <<currentMouseX, currentMouseY, call, steps, index, sent, cursor, inflight,
                 scrollY, indicator, anim>>
  /\ UNCHANGED <<tlVars, ffVars>>

\* The script has the outcome of the operation and goes on; the locals of the
\* operation are gone.
ScriptGoesOn ==
  /\ ppc = "returned"
  /\ ppc' = "idle"
  /\ call' = NoCall
  /\ steps' = 0
  /\ index' = 0
  /\ sent' = <<>>
  /\ result' = "none"
  /\ anim' = NoAnim
  /\ timeout' = 0
  /\ evaluations' = 0
  /\ UNCHANGED <<currentMouseX, currentMouseY, cursor, inflight, scrollY, indicator>>
  /\ UNCHANGED <<tlVars, ffVars>>

\* A primitive that was issued without await resolves.
Settle ==
  /\ \E p \in inflight : inflight' = inflight \ {p}
  /\ UNCHANGED <<currentMouseX, currentMouseY, ppc, call, steps, index, sent, result,
                 cursor, scrollY, indicator, anim>>
  /\ UNCHANGED <<tlVars, wtVars, ffVars>>

AwaitingPrimitive ==
  {"move.sync", "move.step", "move.final", "mte.box", "scroll.box", "scroll.run",
   "click.box1", "click.viewport", "click.box2", "visit.goto", "exists.count"}

\* The awaited primitive is rejected by the page; the operation throws.  The
\* evaluate that runs the scroll animation is rejected when its document goes
\* away under it: the page then shows a fresh document.
PrimitiveFails ==
  /\ ppc \in AwaitingPrimitive
  /\ Throw("PageError")
  /\ IF ppc = "scroll.run"
       THEN scrollY' = 0 /\ indicator' = <<>> /\ cursor' = "default"
       ELSE UNCHANGED <<scrollY, indicator, cursor>>
  /\ UNCHANGED <<currentMouseX, currentMouseY, call, steps, index, sent, inflight, anim>>
  /\ UNCHANGED <<tlVars, wtVars, ffVars>>

\* The export action at rest while the script drives the page.
TimelineInit ==
  /\ pc = "script"
  /\ startedAt = 0
  /\ now = 0
  /\ marks = <<Mark("pause", 0)>>
  /\ videoPath = FALSE
  /\ rawFile = NoFile
  /\ segments = <<>>
  /\ output = NoFile
  /\ ffmpegRuns = 0
  /\ closedAt = <<>>
  /\ dirExists = TRUE

InitPointer == TimelineInit /\ PointerInit

NextPointer ==
  \/ CallMoveMouseTo
  \/ MoveSynced
  \/ MoveStepped
  \/ MoveFinished
  \/ CallMoveMouseToElement
  \/ MoveToElementBoxed
  \/ CallScrollToElement
  \/ ScrollBoxed
  \/ ScrollFrame
  \/ ScrollSettled
  \/ CallClickLink
  \/ ClickLinkBoxed
  \/ ClickLinkViewport
  \/ ClickLinkReboxed
  \/ ClickLinkClicks
  \/ CallFillIn
  \/ FillInTyped
  \/ CallSetCursor
  \/ CallVisit
  \/ VisitLoaded
  \/ CallExists
  \/ ExistsCounted
  \/ CallWaitUntilSatisfied
  \/ CallbackResolved
  \/ PollSlept
  \/ ScriptGoesOn
  \/ Settle
  \/ PrimitiveFails

SpecPointer == InitPointer /\ [][NextPointer]_vars

\* A script that only waits.  The callback resolves and the timer of sleep(10)
\* fires: both are weakly fair.
NextWait ==
  \/ CallWaitUntilSatisfied
  \/ CallbackResolved
  \/ PollSlept
  \/ ScriptGoesOn

\* A script that scrolls and navigates.  The page is shown, so its animation
\* frames come and the timer of part_001:188 fires: both are weakly fair.
NextScroll ==
  \/ CallScrollToElement
  \/ ScrollBoxed
  \/ ScrollFrame
  \/ ScrollSettled
  \/ CallVisit
  \/ VisitLoaded
  \/ PrimitiveFails
  \/ ScriptGoesOn

SpecScroll ==
  /\ InitPointer
  /\ [][NextScroll]_vars
  /\ WF_vars(ScrollFrame)
  /\ WF_vars(ScrollSettled)

SpecWait ==
  /\ InitPointer
  /\ [][NextWait]_vars
  /\ WF_vars(CallbackResolved)
  /\ WF_vars(PollSlept)

\* ---------------------------------------------------------------- export action
StartTimes == {0, 1500}

Init ==
  /\ pc = "script"
  /\ startedAt \in StartTimes
  /\ now = startedAt
  /\ marks = <<Mark("pause", startedAt)>>
  /\ videoPath = FALSE
  /\ rawFile = NoFile
  /\ segments = <<>>
  /\ output = NoFile
  /\ ffmpegRuns = 0
  /\ closedAt = <<>>
  /\ dirExists = TRUE
  /\ PointerInit

\* Time passes while the script, the browser shutdown or the file system work.
Tick ==
  /\ pc \in {"script", "closing", "closed"}
  /\ now - startedAt < MaxTicks * TickMs
  /\ now' = now + TickMs
  /\ UNCHANGED <<pc, startedAt, marks, videoPath, rawFile, segments, output,
                 ffmpegRuns, closedAt, dirExists>>
  /\ UNCHANGED <<ptVars, wtVars, ffVars>>

\* pause() / resume() called by the script.
AppendMark(type) ==
  /\ pc = "script"
  /\ Len(marks) <= MaxCalls
  /\ marks' = Append(marks, Mark(type, now))
  /\ UNCHANGED <<pc, now, startedAt, videoPath, rawFile, segments, output,
                 ffmpegRuns, closedAt, dirExists>>
  /\ UNCHANGED <<ptVars, wtVars, ffVars>>

Pause == AppendMark("pause")

Resume == AppendMark("resume")

\* cli.mts:219: module.run() resolves.
ScriptDone ==
  /\ pc = "script"
  /\ pc' = "closing"
  /\ UNCHANGED <<now, startedAt, marks, videoPath, rawFile, segments, output,
                 ffmpegRuns, closedAt, dirExists>>
  /\ UNCHANGED <<ptVars, wtVars, ffVars>>

\* cli.mts:219: module.run() rejects; the action rejects with it.
ScriptFails ==
  /\ pc = "script"
  /\ pc' = "failed"
  /\ UNCHANGED <<now, startedAt, marks, videoPath, rawFile, segments, output,
                 ffmpegRuns, closedAt, dirExists>>
  /\ UNCHANGED <<ptVars, wtVars, ffVars>>

\* cli.mts:220-230: the video path is read and the context closed, which
\* finishes the raw recording.
CloseContext ==
  /\ pc = "closing"
  /\ \E v \in BOOLEAN :
       /\ videoPath' = v
       /\ rawFile' = IF v THEN File(FrameTimes(now - startedAt)) ELSE NoFile
  /\ pc' = "closed"
  /\ UNCHANGED <<now, startedAt, marks, segments, output, ffmpegRuns, closedAt,
                 dirExists>>
  /\ UNCHANGED <<ptVars, wtVars, ffVars>>

\* cli.mts:232-238: the closing pause and the segments.
Derive ==
  /\ pc = "closed"
  /\ videoPath
  /\ marks' = closeMarks(marks, now)
  /\ closedAt' = IF marks' # marks THEN <<now>> ELSE <<>>
  /\ segments' = marksToSegments(marks', startedAt)
  /\ pc' = "derived"
  /\ UNCHANGED <<now, startedAt, videoPath, rawFile, output, ffmpegRuns, dirExists>>
  /\ UNCHANGED <<ptVars, wtVars, ffVars>>

\* cli.mts:240-244 with ffmpeg (if spawned) succeeding: the file left at
\* outputPath and the number of ffmpeg runs it takes.
ProducedOutput(ms, segs, raw, out) ==
  IF UsesRangeSelection(ms)
    THEN processVideoSegments(raw, out, segs)
    ELSE File(raw.frames)

ProducedRuns(ms, segs) ==
  IF UsesRangeSelection(ms) /\ SpawnsFfmpeg(segs) THEN 1 ELSE 0

Produce ==
  /\ pc = "derived"
  /\ output' = ProducedOutput(marks, segments, rawFile, output)
  /\ ffmpegRuns' = ffmpegRuns + ProducedRuns(marks, segments)
  /\ pc' = "produced"
  /\ UNCHANGED <<now, startedAt, marks, videoPath, rawFile, segments, closedAt,
                 dirExists>>
  /\ selectExpr' = IF UsesRangeSelection(marks) /\ SpawnsFfmpeg(segments)
                     THEN buildSelectFilter(segments)
                     ELSE selectExpr
  /\ UNCHANGED <<ptVars, wtVars>>

\* cli.mts:98-104: ffmpeg cannot be run or exits non-zero; the action throws.
ProduceFails ==
  /\ pc = "derived"
  /\ UsesRangeSelection(marks)
  /\ SpawnsFfmpeg(segments)
  /\ ffmpegRuns' = ffmpegRuns + 1
  /\ pc' = "failed"
  /\ UNCHANGED <<now, startedAt, marks, videoPath, rawFile, segments, output,
                 closedAt, dirExists>>
  /\ selectExpr' = IF UsesRangeSelection(marks) /\ SpawnsFfmpeg(segments)
                     THEN buildSelectFilter(segments)
                     ELSE selectExpr
  /\ UNCHANGED <<ptVars, wtVars>>

\* cli.mts:246
Unlink ==
  /\ pc = "produced"
  /\ rawFile' = NoFile
  /\ pc' = "unlinked"
  /\ UNCHANGED <<now, startedAt, marks, videoPath, segments, output, ffmpegRuns,
                 closedAt, dirExists>>
  /\ UNCHANGED <<ptVars, wtVars, ffVars>>

\* cli.mts:249
RemoveDir ==
  /\ \/ pc = "unlinked"
     \/ pc = "closed" /\ ~videoPath
  /\ dirExists' = FALSE
  /\ pc' = "done"
  /\ UNCHANGED <<now, startedAt, marks, videoPath, rawFile, segments, output,
                 ffmpegRuns, closedAt>>
  /\ UNCHANGED <<ptVars, wtVars, ffVars>>

Next ==
  \/ Tick
  \/ Pause
  \/ Resume
  \/ ScriptDone
  \/ ScriptFails
  \/ CloseContext
  \/ Derive
  \/ Produce
  \/ ProduceFails
  \/ Unlink
  \/ RemoveDir

Spec == Init /\ [][Next]_vars

\* ------------------------------------------------- marksToSegments on its own
\* Every mark sequence up to MaxMarks marks, in any order of time, and a start
\* time that some marks precede.
PureTimes == {0, 500, 1200, 2000}

PureStarts == {0, 500}

MarkSet == [type : {"pause", "resume"}, timestamp : PureTimes]

InitSegments ==
  /\ pc = "pure"
  /\ startedAt \in PureStarts
  /\ now = startedAt
  /\ marks \in UNION {[1..n -> MarkSet] : n \in 0..MaxMarks}
  /\ videoPath = FALSE
  /\ rawFile = NoFile
  /\ segments = <<>>
  /\ output = NoFile
  /\ ffmpegRuns = 0
  /\ closedAt = <<>>
  /\ dirExists = TRUE
  /\ PointerInit

DeriveOnly ==
  /\ pc = "pure"
  /\ segments' = marksToSegments(marks, startedAt)
  /\ pc' = "pureDone"
  /\ UNCHANGED <<now, startedAt, marks, videoPath, rawFile, output, ffmpegRuns,
                 closedAt, dirExists>>
  /\ UNCHANGED <<ptVars, wtVars, ffVars>>

\* cli.mts:78: the select expression of the derived segments.
BuildFilterOnly ==
  /\ pc = "pureDone"
  /\ selectExpr' = buildSelectFilter(segments)
  /\ pc' = "pureBuilt"
  /\ UNCHANGED <<now, startedAt, marks, videoPath, rawFile, segments, output, ffmpegRuns,
                 closedAt, dirExists>>
  /\ UNCHANGED <<ptVars, wtVars>>

NextSegments == DeriveOnly \/ BuildFilterOnly

SpecSegments == InitSegments /\ [][NextSegments]_vars

\* ==================================================================== claims

\* The frames of the raw recording that lie between a resume() and the next
\* pause() (the closing pause stands for the session end).
IsResumedFrame(f) ==
  \E i \in 1..Len(marks) :
    /\ marks[i].type = "resume"
    /\ marks[i].timestamp - startedAt <= f
    /\ \E j \in (i + 1)..Len(marks) :
         /\ marks[j].type = "pause"
         /\ \A k \in (i + 1)..(j - 1) : marks[k].type # "pause"
         /\ f <= marks[j].timestamp - startedAt

ResumedFrames == {f \in rawFile.frames : IsResumedFrame(f)}

\* C1: once the output has been produced it holds exactly the frames recorded
\* between each resume() and the next pause() (or the session end), so a script
\* that never resumes gets an output without recorded content.
C1_OutputIsResumedTime ==
  pc = "produced" => output.exists /\ output.frames = ResumedFrames

\* The indexes of the pause marks that are preceded by an unmatched resume, and
\* for such a pause the latest resume before it.
EmitIndexes(ms) ==
  {j \in 1..Len(ms) :
     /\ ms[j].type = "pause"
     /\ \E i \in 1..(j - 1) :
          ms[i].type = "resume" /\ \A k \in (i + 1)..(j - 1) : ms[k].type # "pause"}

LatestResume(ms, j) ==
  CHOOSE i \in 1..(j - 1) :
    ms[i].type = "resume" /\ \A k \in (i + 1)..(j - 1) : ms[k].type # "resume"

NthEmit(ms, n) ==
  CHOOSE j \in EmitIndexes(ms) : Cardinality({e \in EmitIndexes(ms) : e <= j}) = n

ExpectedSegments(ms, started) ==
  [n \in 1..Cardinality(EmitIndexes(ms)) |->
     LET j == NthEmit(ms, n) IN
       [start |-> DivBy1000(ms[LatestResume(ms, j)].timestamp - started),
        end   |-> DivBy1000(ms[j].timestamp - started)]]

\* C2: marksToSegments emits, in scan order, one segment per pause mark that is
\* preceded by an unmatched resume, from the latest such resume to that pause,
\* both as offsets from the start in seconds; nothing else is emitted.
C2_SegmentsPerPause ==
  pc = "pureDone" => segments = ExpectedSegments(marks, startedAt)

\* Two resumes at different times, then two pauses: one segment, from the later
\* resume to the first pause.
C2_Witness ==
  /\ pc = "pureDone"
  /\ Len(marks) = 4
  /\ marks[1].type = "resume" /\ marks[2].type = "resume"
  /\ marks[3].type = "pause" /\ marks[4].type = "pause"
  /\ marks[1].timestamp # marks[2].timestamp
  /\ Len(segments) = 1
  /\ segments[1].start = DivBy1000(marks[2].timestamp - startedAt)

MarkTypes(ms) == [i \in 1..Len(ms) |-> ms[i].type]

\* C3: with the implicit initial pause plus exactly one resume/pause pair, ffmpeg
\* is not run and the output is the raw recording unchanged.
C3_SinglePairIsCopied ==
  pc = "produced" /\ MarkTypes(marks) = <<"pause", "resume", "pause">>
    => ffmpegRuns = 0 /\ output = File(rawFile.frames)

\* C4: with at most 2 marks the raw capture is passed through without range
\* selection and the output equals what processVideoSegments would have written
\* for the segments derived from the same marks.
C4_ShortcutEqualsGeneralPath ==
  pc = "produced" /\ Len(marks) <= 2
    => /\ ffmpegRuns = 0
       /\ output = processVideoSegments(rawFile, NoFile, segments)

\* C5: the marks handed to marksToSegments end on a pause; when the script left
\* the recording resumed, that pause is the closing one stamped with the session
\* end, and the last segment runs from the trailing resume to the session end.
C5_ClosingPause ==
  pc = "derived" =>
    /\ Last(marks).type = "pause"
    /\ \A i \in 1..Len(marks) :
         marks[i].type = "resume" => \E j \in (i + 1)..Len(marks) : marks[j].type = "pause"
    /\ closedAt # <<>> =>
         /\ Last(marks) = Mark("pause", closedAt[1])
         /\ closedAt[1] = now
         /\ marks[Len(marks) - 1].type = "resume"
         /\ Len(segments) > 0
         /\ Last(segments).end = DivBy1000(closedAt[1] - startedAt)
         /\ Last(segments).start = DivBy1000(marks[Len(marks) - 1].timestamp - startedAt)
         /\ SecLeq(Last(segments).start, Last(segments).end)

\* The script ended resumed some time before the session end.
C5_Witness ==
  /\ pc = "derived"
  /\ closedAt # <<>>
  /\ marks[Len(marks) - 1].timestamp < closedAt[1]
  /\ Len(segments) = 2

Chronological(ms, started) ==
  /\ \A i \in 1..Len(ms) : ms[i].timestamp >= started
  /\ \A i \in 1..(Len(ms) - 1) : ms[i].timestamp <= ms[i + 1].timestamp

\* C6: for marks in chronological order, none earlier than the start, every
\* segment has 0 <= start <= end and starts no earlier than the one before ends.
C6_SegmentsOrdered ==
  pc = "pureDone" /\ Chronological(marks, startedAt) =>
    /\ \A i \in 1..Len(segments) :
         SecLeq(SecZero, segments[i].start) /\ SecLeq(segments[i].start, segments[i].end)
    /\ \A i \in 2..Len(segments) : SecLeq(segments[i - 1].end, segments[i].start)

C6_Witness ==
  /\ pc = "pureDone"
  /\ Chronological(marks, startedAt)
  /\ Len(segments) = 2
  /\ segments[1].start # segments[1].end
  /\ segments[1].end # segments[2].start

\* The marks of a script that calls pause() once more, right after mark k.
InsertPauseAfter(ms, k) ==
  SubSeq(ms, 1, k) \o <<Mark("pause", ms[k].timestamp)>> \o SubSeq(ms, k + 1, Len(ms))

\* What cli.mts:232-244 leaves at the output path for the script marks ms.
ExportOf(ms) ==
  LET closed == closeMarks(ms, now)
      segs == marksToSegments(closed, startedAt)
  IN [segments |-> segs, output |-> ProducedOutput(closed, segs, rawFile, output)]

\* C7: an extra pause() directly after a pause changes neither the derived
\* segments nor the video that is produced.
C7_ExtraPauseChangesNothing ==
  pc = "closed" /\ videoPath =>
    \A k \in 1..Len(marks) :
      marks[k].type = "pause" => ExportOf(InsertPauseAfter(marks, k)) = ExportOf(marks)

\* The pointer moves an operation has issued, in order.
Moves == SelectSeq(sent, LAMBDA p : p.kind = "move")

MovingOps == {"moveMouseTo", "moveMouseToElement", "clickLink"}

\* C8: a moveMouseTo that succeeds leaves Pointer State at (x, y); after the
\* pointer is re-sent to where it was, it issues n waypoint moves with
\* n - 1 < distance / speed <= n and then one move to (x, y) exactly; at
\* distance 0 it issues no waypoint and leaves Pointer State as it was.
C8_MoveToReachesTarget ==
  ppc = "returned" /\ result = "ok" /\ call.name \in MovingOps =>
    LET dx == call.x - call.fromX
        dy == call.y - call.fromY
        n == Len(Moves) - 2
    IN /\ currentMouseX = call.x /\ currentMouseY = call.y
       /\ Moves[1] = Prim("move", call.fromX, call.fromY, "")
       /\ IF dx = 0 /\ dy = 0
            THEN Len(Moves) = 1
            ELSE /\ n >= 1
                 /\ (Px(n) * call.speed) * (Px(n) * call.speed) >= dx * dx + dy * dy
                 /\ (Px(n - 1) * call.speed) * (Px(n - 1) * call.speed) < dx * dx + dy * dy
                 /\ Moves[Len(Moves)] = Prim("move", call.x, call.y, "")

\* A diagonal move of three steps, ended.
C8_Witness ==
  /\ ppc = "returned" /\ result = "ok" /\ call.name = "moveMouseTo"
  /\ call.x # call.fromX /\ call.y # call.fromY
  /\ Len(Moves) = 5

ExactlyOneDiscriminant(c) ==
  \/ c.selector # "" /\ c.text = "" /\ c.locator = NullLocator
  \/ c.selector = "" /\ c.text # "" /\ c.locator = NullLocator
  \/ c.selector = "" /\ c.text = "" /\ c.locator # NullLocator

\* The target a call names by its one discriminant.
TargetOf(c) ==
  IF c.locator # NullLocator THEN c.locator
  ELSE IF c.text # "" THEN [by |-> "text", q |-> c.text]
  ELSE [by |-> "selector", q |-> c.selector]

TargetOps == {"moveMouseToElement", "scrollToElement", "clickLink", "fillIn"}

\* C9: moveToElement, scrollToElement, clickLink and fillIn, given a target that
\* resolves to no element, fail with NotFound, having issued no pointer move,
\* scroll or click and with Pointer State as it was.
C9_ZeroElementsIsNotFound ==
  /\ ppc = "returned"
  /\ call.name \in TargetOps
  /\ ExactlyOneDiscriminant(call)
  /\ ElementOf(TargetOf(call)) = ""
  /\ result # "PageError"
  => /\ result = "NotFound"
     /\ \A i \in 1..Len(sent) : sent[i].kind \notin {"move", "scroll", "click"}
     /\ currentMouseX = call.fromX /\ currentMouseY = call.fromY

ResolvingOps == {"moveMouseToElement", "scrollToElement", "clickLink"}

\* C10 as stated: a call whose target has no discriminant, or has selector and
\* text together, has failed with InvalidArgument.
C10_ExactlyOneDiscriminant ==
  /\ call.name \in ResolvingOps
  /\ \/ call.selector = "" /\ call.text = "" /\ call.locator = NullLocator
     \/ call.selector # "" /\ call.text # ""
  => ppc = "returned" /\ result = "InvalidArgument" /\ call.resolved = NullLocator

\* C10, amended: with no discriminant the call has failed with InvalidArgument;
\* with selector and text together nothing is refused: the text is resolved and
\* the selector ignored, unless a handle is given to moveToElement or
\* scrollToElement, which is then used before either.
C10_AtLeastOneDiscriminant ==
  call.name \in ResolvingOps =>
    /\ call.selector = "" /\ call.text = "" /\ call.locator = NullLocator
         => ppc = "returned" /\ result = "InvalidArgument" /\ call.resolved = NullLocator
    /\ call.selector # "" /\ call.text # ""
         /\ (call.name = "clickLink" \/ call.locator = NullLocator)
         => /\ call.resolved = [by |-> "text", q |-> call.text]
            /\ result # "InvalidArgument"
    /\ call.locator # NullLocator /\ call.name # "clickLink"
         => call.resolved = call.locator /\ result # "InvalidArgument"

\* clickLink({ selector: "#a", text: "B" }) has clicked on "b".
C10_Witness ==
  /\ ppc = "returned" /\ result = "ok" /\ call.name = "clickLink"
  /\ call.selector = "#a" /\ call.text = "B"
  /\ ElementOf(call.resolved) = "b"
  /\ Last(sent).kind = "click"

\* ---------------------------------------------------------------------- C11
\* Math.ceil(t / 10) for a positive budget, 0 otherwise.
CeilPolls(t) == IF t <= 0 THEN 0 ELSE (t + PollMs - 1) \div PollMs

Waiting == call.name = "waitUntilSatisfied"

\* The callback results waitUntilSatisfied has seen so far.
Falsy(i) == sent[i].arg = "falsy"

WaitPollsWithinBudget ==
  Waiting =>
    /\ evaluations <= CeilPolls(call.timeout)
    /\ Len(sent) = IF ppc = "wait.callback" THEN evaluations - 1 ELSE evaluations
    /\ \A i \in 1..Len(sent) :
         ~Falsy(i) => i = Len(sent) /\ ppc = "returned" /\ result = "ok"
    /\ timeout = call.timeout
                 - PollMs * (IF ppc = "wait.sleep" THEN evaluations - 1
                             ELSE IF ppc = "wait.callback" THEN evaluations - 1
                             ELSE IF result = "ok" THEN evaluations - 1
                             ELSE evaluations)
    /\ ppc = "returned" =>
         \/ /\ result = "ok"
            /\ evaluations >= 1
            /\ ~Falsy(evaluations)
         \/ /\ result = "Timeout"
            /\ timeout <= 0
            /\ evaluations = CeilPolls(call.timeout)
            /\ \A i \in 1..Len(sent) : Falsy(i)
    /\ call.timeout <= 0 => ppc = "returned" /\ result = "Timeout" /\ evaluations = 0

\* C11: waitUntilSatisfied always terminates; it calls the callback once per
\* 10 ms poll, returns at the first truthy result and otherwise throws Timeout
\* when the budget, counted down by 10 per poll, is used up; the callback is
\* called at most ceil(timeout / 10) times, success needs a truthy result, and
\* with timeout <= 0 it throws Timeout without calling the callback.
C11_WaitTerminates ==
  /\ []WaitPollsWithinBudget
  /\ (Waiting ~> (Waiting /\ ppc = "returned"))

\* A budget of 15 ms is used up after two falsy polls.
C11_Witness ==
  /\ Waiting
  /\ ppc = "returned"
  /\ result = "Timeout"
  /\ call.timeout = 15
  /\ evaluations = 2

\* ---------------------------------------------------------------------- C12
\* The vertical span of the element lies wholly above or wholly below what the
\* viewport shows at scroll offset `scroll` (document coordinates).
FullyOutsideViewport(locator, scroll) ==
  LET b == DocBox(ElementOf(locator)) IN
    \/ Px(b.y) + Px(b.height) < scroll
    \/ Px(b.y) > scroll + InnerHeight

\* C12: clickLink scrolls to the element before moving the pointer exactly when
\* the element's vertical span lies entirely outside the current viewport, at
\* every scroll offset; an element that is partly visible is never scrolled.
C12_ScrollsIffOffScreen ==
  call.name = "clickLink" =>
    /\ ppc = "scroll.box" => FullyOutsideViewport(call.resolved, scrollY)
    /\ (ppc = "click.box2" /\ anim.phase = "none") =>
         ~FullyOutsideViewport(call.resolved, scrollY)

\* ---------------------------------------------------------------------- C13
\* The scroll offset at which the centre of the element is the centre of the
\* viewport.
CenteringOffset(locator) ==
  LET b == DocBox(ElementOf(locator)) IN Px(b.y) + Px(b.height) \div 2 - InnerHeight \div 2

\* C13: from any starting scroll offset, scrollToElement computes the delta that
\* centres the element vertically in the viewport and, once the duration has
\* elapsed, leaves the page scrolled to the starting offset plus that delta,
\* where the centre of the element is the centre of the viewport (as far as
\* the scrollable range of the page allows).
C13_ScrollCentersElement ==
  (call.name = "scrollToElement" /\ ppc = "returned" /\ result = "ok") =>
    /\ sent[Len(sent)] = Prim("scroll", 0, anim.start + anim.distance, "")
    /\ ClampScroll(anim.start + anim.distance) = ClampScroll(CenteringOffset(call.resolved))
    /\ scrollY = ClampScroll(CenteringOffset(call.resolved))

\* ---------------------------------------------------------------------- C14
PointerState == <<currentMouseX, currentMouseY>>

Clicks(s) == SelectSeq(s, LAMBDA p : p.kind = "click")

\* Only the last step of moveMouseTo changes Pointer State, to its target.
PointerMovedOnlyByMove ==
  PointerState' # PointerState =>
    /\ call.name \in MovingOps
    /\ ppc = "move.final"
    /\ PointerState' = <<call.x, call.y>>

\* click() adds one click primitive, at Pointer State, which it leaves alone.
ClickIsOneClickAtPointer ==
  Len(Clicks(sent')) > Len(Clicks(sent)) =>
    /\ Clicks(sent') = Append(Clicks(sent), Prim("click", currentMouseX, currentMouseY, ""))
    /\ sent' = Append(sent, Prim("click", currentMouseX, currentMouseY, ""))
    /\ PointerState' = PointerState

\* C14: click() issues exactly one click primitive at the current Pointer State
\* and leaves Pointer State unchanged; Pointer State starts at (0,0) and is
\* changed only by the movement operations, never by click, scrollToElement,
\* setCursor, fillIn, exists, visit or waitUntilSatisfied.
C14_PointerStateFrame ==
  /\ PointerState = <<0, 0>>
  /\ [][PointerMovedOnlyByMove /\ ClickIsOneClickAtPointer]_vars

\* clickLink has clicked away from the origin.
C14_Witness ==
  /\ call.name = "clickLink"
  /\ ppc = "returned"
  /\ result = "ok"
  /\ PointerState # <<0, 0>>
  /\ Len(Clicks(sent)) = 1

\* ---------------------------------------------------------------------- C15
\* Stream timestamps the expression is asked about, in ms.
ProbeTimes == {0, 1, 499, 500, 700, 701, 1200, 1500, 2000, 2001}

InSomeSegment(t) ==
  \E i \in 1..Len(segments) :
    SecLeq(segments[i].start, t) /\ SecLeq(t, segments[i].end)

\* C15: for no segments the expression is between(t,0,0); otherwise it is the
\* sum of one between() per segment, in the order of the segments, and is
\* non-zero at a timestamp t exactly when start <= t <= end for some segment.
C15_SelectIsUnionOfSegments ==
  pc = "pureBuilt" =>
    /\ Len(segments) = 0 => selectExpr = <<[lo |-> <<"0">>, hi |-> <<"0">>]>>
    /\ Len(segments) > 0 =>
         /\ Len(selectExpr) = Len(segments)
         /\ \A i \in 1..Len(segments) :
              /\ ParseNumber(selectExpr[i].lo) = segments[i].start
              /\ ParseNumber(selectExpr[i].hi) = segments[i].end
         /\ \A ms \in ProbeTimes :
              SelectValue(selectExpr, DivBy1000(ms), 1) # 0 <=> InSomeSegment(DivBy1000(ms))

\* Two segments, the first with decimals in its bounds.
C15_Witness ==
  /\ pc = "pureBuilt"
  /\ Len(segments) = 2
  /\ selectExpr[1] = [lo |-> <<"0", ".", "5">>, hi |-> <<"1", ".", "2">>]
  /\ selectExpr[2].hi = <<"2">>

\* ---------------------------------------------------------------------- C16
\* C16: every primitive an operation issues, the final click of clickLink and
\* the cursor updates included, has resolved before the operation returns to
\* the script, so none is in flight during the next step of the script.
C16_NothingInFlightOnReturn ==
  ppc \in {"returned", "idle"} => inflight = {}

\* ---------------------------------------------------------------------- C17
Indexes(s, kinds) == {i \in 1..Len(s) : s[i].kind \in kinds}

Highest(S) == CHOOSE i \in S : \A j \in S : j <= i

Lowest(S) == CHOOSE i \in S : \A j \in S : i <= j

\* The centre of the box of the target as the page is scrolled now.
BoxCentre ==
  LET box == boundingBox(call.resolved, scrollY) IN <<CenterX(box), CenterY(box)>>

\* The primitives of a clickLink that succeeded, in the order of the claim.
ClickLinkInOrder ==
  LET n == Len(sent)
      scrolls == Indexes(sent, {"evaluate", "scroll"})
      moves == Indexes(sent, {"move"})
      cursors == Indexes(sent, {"cursor"})
  IN /\ n >= 5
     \* the click comes last, once, at the centre of the box, where the pointer is
     /\ sent[n] = Prim("click", BoxCentre[1], BoxCentre[2], "")
     /\ Indexes(sent, {"click"}) = {n}
     /\ PointerState = BoxCentre
     \* before it the wait of `delay` ms, 500 when no delay is given
     /\ sent[n - 1] = Prim("sleep", IF call.delay = NoDelay THEN DefaultDelay ELSE call.delay,
                           0, "")
     \* before that the hand cursor
     /\ sent[n - 2] = CursorPrim("hand")
     \* before that the pointer moves, the last one to the centre of the box
     /\ sent[n - 3] = Prim("move", BoxCentre[1], BoxCentre[2], "")
     /\ \A i \in moves : i <= n - 3
     \* scrolling, if any, comes first and is followed by the 100 ms wait
     /\ scrolls # {} =>
          /\ sent[1].kind = "evaluate"
          /\ scrolls = 1..Highest(scrolls)
          /\ sent[Highest(scrolls) + 1] = Prim("sleep", SettleDelay, 0, "")
          /\ Lowest(moves \cup cursors) = Highest(scrolls) + 2
     /\ scrolls = {} => Lowest(moves \cup cursors) = 1

\* C17: a clickLink that succeeds resolves the target once, scrolls and waits
\* 100 ms if the element is off screen, reads the box again, moves the pointer
\* to the centre of that box, sets the hand cursor, waits `delay` (500 ms when
\* none is given) and then clicks, at the centre of the box, which is Pointer
\* State, and never before the pointer move is complete.
C17_ClickLinkOrder ==
  (call.name = "clickLink" /\ ppc = "returned" /\ result = "ok") => ClickLinkInOrder

\* ---------------------------------------------------------------------- C18
\* The pointer moves of the operation that the page has carried out: all that
\* were issued, less the one whose rejection ended the operation.
DeliveredMoves ==
  IF result = "PageError" /\ Len(sent) > 0 /\ sent[Len(sent)].kind = "move"
    THEN SubSeq(Moves, 1, Len(Moves) - 1)
    ELSE Moves

\* C18: when no movement operation is in flight, also after one that failed
\* partway through its waypoints, Pointer State is the position of the last
\* pointer move that was sent to the page.
C18_PointerStateIsLastMoveSent ==
  (ppc = "returned" /\ call.name \in MovingOps /\ Len(DeliveredMoves) > 0) =>
    LET last == DeliveredMoves[Len(DeliveredMoves)] IN
      PointerState = <<last.x, last.y>>

\* ---------------------------------------------------------------------- C19
PhaseRank(phase) ==
  CASE phase = "none" -> 0
    [] phase = "fading-in" -> 1
    [] phase = "animating" -> 2
    [] phase = "fading-out" -> 3
    [] phase = "done" -> 4

\* The animation only moves forward (until the script goes on and it is gone).
PhaseAdvances ==
  anim'.phase # anim.phase =>
    \/ PhaseRank(anim'.phase) > PhaseRank(anim.phase)
    \/ anim'.phase = "none" /\ ppc = "returned"

Animating == ppc = "scroll.run" /\ anim.phase \in {"fading-in", "animating", "fading-out"}

IndicatorFollowsAnimation ==
  \* the indicator is there throughout the animation, pointing the way of the delta
  /\ Animating =>
       /\ Len(indicator) = 1
       /\ indicator[1].dir = IF anim.distance < 0 THEN "up" ELSE "down"
  \* it is faded in while frames are still to come
  /\ (Animating /\ anim.phase = "animating") => indicator[1].opacity = 1
  \* it is faded out only once the final frame has set the target offset
  /\ (Animating /\ anim.phase = "fading-out") =>
       /\ indicator[1].opacity = 0
       /\ sent[Len(sent)] = Prim("scroll", 0, anim.start + anim.distance, "")
       /\ scrollY = ClampScroll(anim.start + anim.distance)
  \* it is on the page at no other time, so not once the operation has returned
  /\ indicator # <<>> => Animating
  /\ (ppc = "returned" /\ call.name = "scrollToElement" /\ result = "ok") =>
       anim.phase = "done" /\ indicator = <<>>

\* C19: the scroll animation goes through fading-in, animating, fading-out and
\* done in that order and always reaches done; the indicator (up for a negative
\* delta, else down) is there throughout, is faded out only after the final
\* frame has set the target offset, and is removed before scrollToElement
\* resolves, so none remains once the operation has returned.
C19_ScrollAnimationCompletes ==
  /\ [][PhaseAdvances]_vars
  /\ []IndicatorFollowsAnimation
  /\ (Animating ~> (anim.phase = "done" \/ result = "PageError"))

\* A scroll up has returned: B was centred, then "a" scrolled to.
C19_Witness ==
  /\ ppc = "returned"
  /\ call.name = "scrollToElement"
  /\ result = "ok"
  /\ anim.phase = "done"
  /\ anim.distance < 0
  /\ indicator = <<>>

\* ---------------------------------------------------------------------- C20
WholePixels(v) == v % Px(1) = 0

Abs(v) == IF v < 0 THEN 0 - v ELSE v

\* The square of the distance from (x, y) to the target of the call.
ToTarget2(x, y) == (call.x - x) * (call.x - x) + (call.y - y) * (call.y - y)

\* The waypoints of a completed move with n steps are Moves[2] .. Moves[n + 1].
WaypointsOnLine ==
  LET n == Len(Moves) - 2
      dx == call.x - call.fromX
      dy == call.y - call.fromY
      W(i) == Moves[i + 1]
  IN /\ n = steps
     \* each waypoint is the exact point from + i * d / n, rounded
     /\ \A i \in 1..n :
          /\ Abs(n * W(i).x - (n * call.fromX + i * dx)) <= n * (Px(1) \div 2)
          /\ Abs(n * W(i).y - (n * call.fromY + i * dy)) <= n * (Px(1) \div 2)
          /\ WholePixels(W(i).x) /\ WholePixels(W(i).y)
     \* the waypoints never get farther from the target
     /\ ToTarget2(W(1).x, W(1).y) <= ToTarget2(call.fromX, call.fromY)
     /\ \A i \in 1..(n - 1) :
          ToTarget2(W(i + 1).x, W(i + 1).y) <= ToTarget2(W(i).x, W(i).y)
     \* the exact points are d / n apart, at most `speed` pixels
     /\ dx * dx + dy * dy <= (Px(n) * call.speed) * (Px(n) * call.speed)
     \* the last waypoint is the target
     /\ W(n) = Prim("move", call.x, call.y, "")

\* C20: for whole-pixel start and target and a positive speed, the waypoints of
\* moveMouseTo lie on the straight line from the start to (x, y), each within
\* rounding of the exact point, never get farther from the target, are spaced
\* at most `speed` pixels apart before rounding, and the last one is the target.
C20_WaypointsOnStraightLine ==
  (/\ ppc = "returned" /\ result = "ok" /\ call.name \in MovingOps
   /\ WholePixels(call.fromX) /\ WholePixels(call.fromY)
   /\ WholePixels(call.x) /\ WholePixels(call.y)
   /\ Len(Moves) > 1) => WaypointsOnLine

\* From (0, 0) to (1, 2) at speed 1: three waypoints, the first rounded to (0, 1).
C20_Witness ==
  /\ ppc = "returned" /\ result = "ok" /\ call.name = "moveMouseTo"
  /\ call.fromX = 0 /\ call.fromY = 0
  /\ call.x = Px(1) /\ call.y = Px(2) /\ call.speed = 1
  /\ steps = 3
  /\ Moves[2] = Prim("move", 0, Px(1), "")

\* ---------------------------------------------------------------------- C21
\* The marks begin with the pause of the recording start and run forward in time.
MarksStartPausedInOrder ==
  /\ Len(marks) >= 1
  /\ marks[1] = Mark("pause", startedAt)
  /\ \A i \in 1..(Len(marks) - 1) : marks[i].timestamp <= marks[i + 1].timestamp

\* A step that changes the marks appends one mark, not older than the last, and
\* is a pause()/resume() of the script or the closing pause.
MarksOnlyAppended ==
  marks' # marks =>
    /\ Len(marks') = Len(marks) + 1
    /\ SubSeq(marks', 1, Len(marks)) = marks
    /\ Last(marks').timestamp >= Last(marks).timestamp
    /\ Last(marks').timestamp = now
    /\ \/ pc = "script"
       \/ pc = "closed" /\ Last(marks') = Mark("pause", now) /\ Last(marks).type = "resume"

\* C21: throughout a session the mark sequence is append-only and in
\* chronological order: its first element is always a pause stamped with the
\* recording start, every pause()/resume() and the closing pause only appends
\* one mark whose timestamp is >= that of the mark before it, and no mark is
\* modified, reordered or removed before the segments are derived.
C21_MarksAppendOnlyChronological ==
  /\ []MarksStartPausedInOrder
  /\ [][MarksOnlyAppended]_vars

\* Marks at three different times, the last one the closing pause.
C21_Witness ==
  /\ pc = "derived"
  /\ closedAt # <<>>
  /\ Len(marks) >= 4
  /\ marks[1].timestamp < marks[2].timestamp
  /\ marks[Len(marks) - 1].timestamp < Last(marks).timestamp

\* ---------------------------------------------------------------------- C22
\* C22: whenever a raw recording exists at the session end, post-processing
\* writes a file at the output path before the raw recording is deleted, for
\* every mark sequence, also one of more than 2 marks that yields no segment;
\* the raw recording is never deleted while no output has been produced.
C22_RawKeptUntilOutputWritten ==
  (videoPath /\ pc \in {"unlinked", "done"}) =>
    /\ ~rawFile.exists
    /\ output.exists

====
